---------------------------- MODULE Spec2Model ----------------------------
(***************************************************************************)
(* Model of shortcut-autotyper: the command-token parser (command.rs), the *)
(* template parser and renderer (content.rs), the sequence store           *)
(* (sequence.rs) and the combination resolver (combinations.rs).           *)
(*                                                                         *)
(* A Rust String is modelled as a sequence of characters.  A character is  *)
(* a one-element TLA+ string; the two characters outside ASCII that the    *)
(* model uses are written by their code points:                            *)
(*   "U+00E9"  LATIN SMALL LETTER E WITH ACUTE: alphabetic, 2 bytes UTF-8  *)
(*   "U+0663"  ARABIC-INDIC DIGIT THREE: numeric, not an ASCII digit,      *)
(*             2 bytes in UTF-8                                            *)
(***************************************************************************)
EXTENDS Integers, Sequences, FiniteSets, Bags, TLC

VARIABLES
    \* ---- the dictionary (combinations.rs, sequence.rs) ----
    phase,          \* "sequences": a Sequences value is being built;
                    \* "combinations": it has been moved into a Combinations;
                    \* "dropped": Combinations::new returned Err
    sequences,      \* Sequences.0: HashMap<String, String>
    combinations,   \* Combinations.combinations: HashMap<String, String>
    call,           \* the last call on the dictionary and what it returned
    \* ---- the command parser (command.rs) ----
    token,          \* the text given to Command::from_str
    parsed,         \* what Command::from_str(token) returned
    command,        \* a Command value (parsed or built by a constructor)
    text,           \* command.to_string()
    reparsed,       \* Command::from_str(text)
    \* ---- the templater (content.rs) ----
    template,       \* the text given to Content::from
    content,        \* Content::from(template)
    args,           \* the argument list given to generate_content
    rendered        \* content.generate_content(args)

dictVars == <<phase, sequences, combinations, call>>
cmdVars  == <<token, parsed, command, text, reparsed>>
tplVars  == <<template, content, args, rendered>>
vars     == <<phase, sequences, combinations, call,
              token, parsed, command, text, reparsed,
              template, content, args, rendered>>

-----------------------------------------------------------------------------
(* Bounds of the model.                                                    *)

\* usize::MAX, scaled down: the largest value str::parse::<usize> accepts.
UsizeMax == 15
\* Longest token given to Command::from_str in SpecCommand.
MaxTokenLen == 5
\* Longest text given to Times::from_str in SpecCommand.
MaxSuffixLen == 5
\* Longest name given to the Command constructors in SpecCommand.
MaxNameLen == 2
\* Longest template given to Content::from in SpecContent.
MaxTemplateLen == 5
\* Most pairs given to Sequences::new and Combinations::new.
MaxPairs == 1
\* Calls of get_sequence_cmd the stack holds before it overflows.
StackDepth == 3

-----------------------------------------------------------------------------
(* Characters (char::is_alphabetic, is_ascii_digit, is_numeric,            *)
(* is_whitespace, len_utf8).                                               *)

AsciiLetters == {"A", "B", "C", "D", "X", "Y", "Z", "a", "b"}
OtherLetters == {"U+00E9"}
AsciiDigits  == {"0", "1", "2", "3", "4", "5", "6", "7", "8", "9"}
OtherNumeric == {"U+0663"}
Whitespace   == {" "}

IsAlphabetic(c) == c \in AsciiLetters \cup OtherLetters
IsAsciiDigit(c) == c \in AsciiDigits
IsNumeric(c)    == c \in AsciiDigits \cup OtherNumeric
IsWhitespace(c) == c \in Whitespace
LenUtf8(c)      == IF c \in OtherLetters \cup OtherNumeric THEN 2 ELSE 1

DigitValue(c) ==
    CASE c = "0" -> 0 [] c = "1" -> 1 [] c = "2" -> 2 [] c = "3" -> 3
      [] c = "4" -> 4 [] c = "5" -> 5 [] c = "6" -> 6 [] c = "7" -> 7
      [] c = "8" -> 8 [] c = "9" -> 9

DigitChar(d) ==
    CASE d = 0 -> "0" [] d = 1 -> "1" [] d = 2 -> "2" [] d = 3 -> "3"
      [] d = 4 -> "4" [] d = 5 -> "5" [] d = 6 -> "6" [] d = 7 -> "7"
      [] d = 8 -> "8" [] d = 9 -> "9"

-----------------------------------------------------------------------------
(* Strings.                                                                *)

\* All strings over the alphabet cs of length at most n.
Strings(cs, n) == UNION {[1..k -> cs] : k \in 0..n}

RECURSIVE ByteLen(_)
\* str::len: the length in bytes.
ByteLen(s) == IF s = <<>> THEN 0 ELSE LenUtf8(Head(s)) + ByteLen(Tail(s))

\* str::is_char_boundary(i): byte offset i falls between two characters.
IsCharBoundary(s, i) == \E k \in 0..Len(s) : ByteLen(SubSeq(s, 1, k)) = i

\* The number of characters before byte offset i (a character boundary).
CharsBefore(s, i) == CHOOSE k \in 0..Len(s) : ByteLen(SubSeq(s, 1, k)) = i

\* &s[..i] and &s[i..] with i a byte offset on a character boundary.
SliceTo(s, i)   == SubSeq(s, 1, CharsBefore(s, i))
SliceFrom(s, i) == SubSeq(s, CharsBefore(s, i) + 1, Len(s))

RECURSIVE Repeat(_, _)
\* str::repeat(n)
Repeat(s, n) == IF n = 0 THEN <<>> ELSE s \o Repeat(s, n - 1)

RECURSIVE Concat(_)
\* Iterator<Item = String>::collect::<String>() of a list of strings.
Concat(ss) == IF ss = <<>> THEN <<>> ELSE Head(ss) \o Concat(Tail(ss))

-----------------------------------------------------------------------------
(* Results: Ok(v), Err(ErrType) and a panic (the call aborts).             *)

Ok(v)       == [tag |-> "Ok", val |-> v]
Err(t, a)   == [tag |-> "Err", type |-> t, arg |-> a]
Panic       == [tag |-> "Panic"]
IsOk(r)     == r.tag = "Ok"
IsErr(r)    == r.tag = "Err"
IsPanic(r)  == r.tag = "Panic"
\* ErrType::RangeMustNotBeEmpty(start..end)
ErrRange(s, e) ==
    [tag |-> "Err", type |-> "RangeMustNotBeEmpty", arg |-> <<>>,
     start |-> s, end |-> e]

-----------------------------------------------------------------------------
(* usize <-> text (core::str::parse::<usize>, Display for usize).          *)

RECURSIVE DigitsValue(_, _)
\* The value of a digit string, accumulated left to right; it stops growing
\* once it is past UsizeMax (the checked multiplication/addition failed).
DigitsValue(s, acc) ==
    IF s = <<>> THEN acc
    ELSE IF acc > UsizeMax THEN acc
    ELSE DigitsValue(Tail(s), acc * 10 + DigitValue(Head(s)))

\* str::parse::<usize>: an optional leading '+', then one or more ASCII
\* digits, the value at most usize::MAX.
ParseUsize(s) ==
    LET Checked(v) == IF v > UsizeMax THEN Err("ParseIntError", <<>>) ELSE Ok(v)
        Digits(body) ==
            IF body = <<>> THEN Err("ParseIntError", <<>>)
            ELSE IF \E i \in 1..Len(body) : ~IsAsciiDigit(body[i])
                 THEN Err("ParseIntError", <<>>)
            ELSE Checked(DigitsValue(body, 0))
    IN  Digits(IF s # <<>> /\ Head(s) = "+" THEN Tail(s) ELSE s)

RECURSIVE UsizeToString(_)
\* Display for usize: decimal, no sign, no leading zeros.
UsizeToString(n) ==
    IF n < 10 THEN <<DigitChar(n)>>
    ELSE UsizeToString(n \div 10) \o <<DigitChar(n % 10)>>

-----------------------------------------------------------------------------
(* command.rs: Times and Command.                                          *)

\* Command.times: Option<Times>
TimesNone        == [kind |-> "None"]
TimesNumber(n)   == [kind |-> "Number", n |-> n]
TimesRange(s, e) == [kind |-> "Range", start |-> s, end |-> e]

\* struct Command { name, times }
Command(name, times) == [name |-> name, times |-> times]

\* Command::new / new_number / new_range: the name is taken as given.
CommandNew(name)                == Command(name, TimesNone)
CommandNewNumber(name, num)     == Command(name, TimesNumber(num))
CommandNewRange(name, s, e)     == Command(name, TimesRange(s, e))

\* Command::valid_name accepting a name as soon as one character is
\* alphabetic.
ValidNameAnyAlphabetic(name) ==
    IF name = <<>> THEN Err("KeyCannotBeEmpty", <<>>)
    ELSE IF \E i \in 1..Len(name) : IsAlphabetic(name[i]) THEN Ok(<<>>)
    ELSE Err("InvalidKeyFormat", name)

\* Command::valid_name
ValidName(name) ==
    IF name = <<>> THEN Err("KeyCannotBeEmpty", <<>>)
    ELSE IF ~(\E i \in 1..Len(name) : ~IsAlphabetic(name[i])) THEN Ok(<<>>)
    ELSE Err("InvalidKeyFormat", name)

\* The ? operator followed by more of the function: r's failure is
\* returned, otherwise the function goes on to return rest.
Try(r, rest) == IF IsOk(r) THEN rest ELSE r

\* Command::valid
CommandValid(cmd) == ValidName(cmd.name)

\* str::find(".."): the position (0-based) of the first "..", or -1.
FindDotDot(s) ==
    LET hits == {i \in 1..(Len(s) - 1) : s[i] = "." /\ s[i + 1] = "."} IN
    IF hits = {} THEN -1
    ELSE (CHOOSE i \in hits : \A j \in hits : i <= j) - 1

\* impl FromStr for Times with start < end in place of start <= end.
TimesFromStrStrict(s) ==
    LET Halves(start, end) ==
            IF IsOk(start) /\ IsOk(end) /\ start.val < end.val
                THEN Ok(TimesRange(start.val, end.val))
            ELSE IF IsOk(start) /\ IsOk(end)
                THEN ErrRange(start.val, end.val)
            ELSE Err("WrongSequenceArg", s)
        Split(index) ==
            IF index = -1 THEN Err("WrongSequenceArg", s)
            ELSE Halves(ParseUsize(SubSeq(s, 1, index)),
                        ParseUsize(SubSeq(s, index + 3, Len(s))))
        Whole(times) ==
            IF IsOk(times) THEN Ok(TimesNumber(times.val))
            ELSE Split(FindDotDot(s))
    IN  Whole(ParseUsize(s))

\* impl FromStr for Times.  find and the two slices use the same byte
\* offsets, so they are taken here in characters.
TimesFromStr(s) ==
    LET Halves(start, end) ==
            IF IsOk(start) /\ IsOk(end) /\ start.val <= end.val
                THEN Ok(TimesRange(start.val, end.val))
            ELSE IF IsOk(start) /\ IsOk(end)
                THEN ErrRange(start.val, end.val)
            ELSE Err("WrongSequenceArg", s)
        Split(index) ==
            IF index = -1 THEN Err("WrongSequenceArg", s)
            ELSE Halves(ParseUsize(SubSeq(s, 1, index)),
                        ParseUsize(SubSeq(s, index + 3, Len(s))))
        Whole(times) ==
            IF IsOk(times) THEN Ok(TimesNumber(times.val))
            ELSE Split(FindDotDot(s))
    IN  Whole(ParseUsize(s))

\* s.chars().position(|c| c.is_ascii_digit()): the index, counted in
\* characters, of the first ASCII digit, or -1.
PositionAsciiDigit(s) ==
    LET hits == {i \in 1..Len(s) : IsAsciiDigit(s[i])} IN
    IF hits = {} THEN -1
    ELSE (CHOOSE i \in hits : \A j \in hits : i <= j) - 1

\* impl FromStr for Command.  The position i is counted in characters and
\* then used as a byte offset in &s[..i] and &s[i..]: slicing off a
\* character boundary panics.
CommandFromStr(s) ==
    LET WithTimes(name, times) ==
            IF IsOk(times) THEN Ok(Command(name, times.val)) ELSE times
        Named(name, valid, i) ==
            IF IsOk(valid) THEN WithTimes(name, TimesFromStr(SliceFrom(s, i)))
            ELSE valid
        Sliced(name, i) == Named(name, ValidName(name), i)
        At(i) ==
            IF i # -1 THEN
                IF ~IsCharBoundary(s, i) THEN Panic ELSE Sliced(SliceTo(s, i), i)
            ELSE Try(ValidName(s), Ok(Command(s, TimesNone)))
    IN  At(PositionAsciiDigit(s))

\* impl Display for Times
TimesDisplay(t) ==
    IF t.kind = "Number" THEN UsizeToString(t.n)
    ELSE UsizeToString(t.start) \o <<".", ".">> \o UsizeToString(t.end)

\* impl Display for Command
CommandDisplay(cmd) ==
    IF cmd.times.kind = "None" THEN cmd.name
    ELSE cmd.name \o TimesDisplay(cmd.times)

\* Command::get_times with the end of the range included.
GetTimesInclusive(cmd) ==
    IF cmd.times.kind = "Number" THEN {cmd.times.n}
    ELSE IF cmd.times.kind = "Range"
        THEN {r \in cmd.times.start..cmd.times.end : TRUE}
    ELSE {1}

\* Command::get_times: the set of values the call can return.  For a Range
\* it is rand::gen_range(start..end), which draws from start..end-1 and
\* panics on an empty range (the empty set here).
GetTimes(cmd) ==
    IF cmd.times.kind = "Number" THEN {cmd.times.n}
    ELSE IF cmd.times.kind = "Range"
        THEN {r \in cmd.times.start..(cmd.times.end - 1) : TRUE}
    ELSE {1}

\* Command::get_name
GetName(cmd) == cmd.name

-----------------------------------------------------------------------------
(* content.rs: ContentItem and Content.                                    *)

\* enum ContentItem { Value(String), Variable(usize) }
ItemValue(v)    == [item |-> "Value", v |-> v, n |-> 0]
ItemVariable(n) == [item |-> "Variable", v |-> <<>>, n |-> n]

\* The state of the scan in Content::from: the items pushed so far, the
\* pending literal, the pending digits, the read_variable flag, and whether
\* variable.parse().unwrap() has panicked.
ScanInit ==
    [cont |-> <<>>, last |-> <<>>, variable |-> <<>>,
     read_variable |-> FALSE, panicked |-> FALSE]

\* cont.push(Value(last.clone())); last.clear();
\* cont.push(Variable(variable.parse().unwrap())); variable.clear();
\* read_variable = false
PushVariable(st, index) ==
    IF ~IsOk(index) THEN [st EXCEPT !.panicked = TRUE]
    ELSE [st EXCEPT !.cont = @ \o <<ItemValue(st.last), ItemVariable(index.val)>>,
                    !.last = <<>>,
                    !.variable = <<>>,
                    !.read_variable = FALSE]

\* One turn of the closure of value.chars().for_each in Content::from.
ScanChar(st, c) ==
    IF st.panicked THEN st
    ELSE IF st.read_variable THEN
        IF IsNumeric(c) THEN [st EXCEPT !.variable = @ \o <<c>>]
        ELSE IF c = ">" THEN
            IF st.variable # <<>> THEN PushVariable(st, ParseUsize(st.variable))
            ELSE [st EXCEPT !.last = @ \o <<"<", ">">>,
                            !.read_variable = FALSE]
        ELSE [st EXCEPT !.last = @ \o <<"<">> \o st.variable \o <<c>>,
                        !.variable = <<>>,
                        !.read_variable = FALSE]
    ELSE
        IF c = "<" THEN [st EXCEPT !.read_variable = TRUE]
        ELSE [st EXCEPT !.last = @ \o <<c>>]

RECURSIVE Scan(_, _)
\* value.chars().for_each(...) from the state st.
Scan(st, value) ==
    IF value = <<>> THEN st ELSE Scan(ScanChar(st, Head(value)), Tail(value))

\* impl From<&str> for Content: Ok(the items), or a panic of the unwrap.
ContentFrom(value) ==
    LET Scanned(st) ==
            IF st.panicked THEN Panic
            ELSE Ok(st.cont \o <<ItemValue(st.last)>>)
    IN  Scanned(Scan(ScanInit, value))

\* ContentItem::generate_content with the index taken as one-based.
ItemGenerateContentOneBased(it, as) ==
    IF it.item = "Value" THEN it.v
    ELSE IF it.n \in DOMAIN as THEN as[it.n]
    ELSE <<"<">> \o UsizeToString(it.n) \o <<">">>

\* ContentItem::generate_content
ItemGenerateContent(it, as) ==
    IF it.item = "Value" THEN it.v
    ELSE IF it.n + 1 \in DOMAIN as THEN as[it.n + 1]
    ELSE <<"<">> \o UsizeToString(it.n) \o <<">">>

\* Content::generate_content
GenerateContent(cont, as) ==
    Concat([i \in 1..Len(cont) |-> ItemGenerateContent(cont[i], as)])

\* impl ToString for ContentItem
ItemToString(it) ==
    IF it.item = "Value" THEN it.v
    ELSE <<"<">> \o UsizeToString(it.n) \o <<">">>

\* impl ToString for Content
ContentToString(cont) ==
    Concat([i \in 1..Len(cont) |-> ItemToString(cont[i])])

-----------------------------------------------------------------------------
(* sequence.rs: Sequences.                                                 *)

\* HashMap::new()
EmptyMap == [k \in {} |-> <<>>]

\* HashMap::insert
MapInsert(m, key, value) ==
    [k \in DOMAIN m \cup {key} |-> IF k = key THEN value ELSE m[k]]

\* Sequences::insert without the look-up of the key: the value of an
\* existing key is replaced.
SequencesInsertOverwrites(seqs, key, value) ==
    LET Checked(valid) ==
            IF ~IsOk(valid) THEN [res |-> valid, seqs |-> seqs]
            ELSE [res |-> Ok(<<>>), seqs |-> MapInsert(seqs, key, value)]
    IN  Checked(ValidName(key))

\* Sequences::insert: the result and the store after the call.
SequencesInsert(seqs, key, value) ==
    LET Checked(valid) ==
            IF ~IsOk(valid) THEN [res |-> valid, seqs |-> seqs]
            ELSE IF key \in DOMAIN seqs
                THEN [res |-> Err("KeyIsInSequences", key), seqs |-> seqs]
            ELSE [res |-> Ok(<<>>), seqs |-> MapInsert(seqs, key, value)]
    IN  Checked(ValidName(key))

RECURSIVE SequencesNewFrom(_, _)
\* The loop of Sequences::new: insert each pair, return the first error.
SequencesNewFrom(seqs, pairs) ==
    LET Inserted(r) ==
            IF ~IsOk(r.res) THEN r ELSE SequencesNewFrom(r.seqs, Tail(pairs))
    IN  IF pairs = <<>> THEN [res |-> Ok(<<>>), seqs |-> seqs]
        ELSE Inserted(SequencesInsert(seqs, Head(pairs)[1], Head(pairs)[2]))

\* Sequences::new
SequencesNew(pairs) == SequencesNewFrom(EmptyMap, pairs)

\* Sequences::get_sequence_cmd(&self, command) as src/sequence.rs has it:
\* the set of results the call can return.
SequencesGetSequenceCmd(seqs, cmd) ==
    LET Repeated(s, times) ==
            IF times = {} THEN {Panic} ELSE {Ok(Repeat(s, n)) : n \in times}
    IN  IF GetName(cmd) \in DOMAIN seqs
            THEN Repeated(seqs[GetName(cmd)], GetTimes(cmd))
        ELSE {Err("SequenceNotExist", GetName(cmd))}

\* Sequences::get_sequence(&self, key)
SequencesGetSequence(seqs, key) ==
    LET Got(cmd) ==
            IF ~IsOk(cmd) THEN {cmd}
            ELSE SequencesGetSequenceCmd(seqs, cmd.val)
    IN  Got(CommandFromStr(key))

\* Sequences::get_sequence_cmd(&self, command, args), the method that
\* Combinations::get_sequence_cmd calls (combinations.rs:53): the stored
\* template is parsed, rendered against args and repeated.
SequencesGetSequenceCmdArgs(seqs, cmd, as) ==
    LET Repeated(s, times) ==
            IF times = {} THEN {Panic} ELSE {Ok(Repeat(s, n)) : n \in times}
        Rendered(cont) ==
            IF ~IsOk(cont) THEN {Panic}
            ELSE Repeated(GenerateContent(cont.val, as), GetTimes(cmd))
    IN  IF GetName(cmd) \in DOMAIN seqs
            THEN Rendered(ContentFrom(seqs[GetName(cmd)]))
        ELSE {Err("SequenceNotExist", GetName(cmd))}

\* Sequences::get
SequencesGet(seqs, key) == key \in DOMAIN seqs

\* Sequences::get_keys
SequencesGetKeys(seqs) == DOMAIN seqs

-----------------------------------------------------------------------------
(* combinations.rs: Combinations.                                          *)

RECURSIVE SplitWhitespace(_, _)
\* str::split_whitespace: the maximal runs of non-whitespace characters;
\* cur is the run being read.
SplitWhitespace(s, cur) ==
    IF s = <<>> THEN (IF cur = <<>> THEN <<>> ELSE <<cur>>)
    ELSE IF IsWhitespace(Head(s))
        THEN (IF cur = <<>> THEN <<>> ELSE <<cur>>) \o SplitWhitespace(Tail(s), <<>>)
    ELSE SplitWhitespace(Tail(s), cur \o <<Head(s)>>)

RECURSIVE CollectCommands(_)
\* .map(Command::from_str).collect::<ATResult<Vec<Command>>>(): the commands,
\* or the first token's failure.
CollectCommands(toks) ==
    LET Rest(first, rest) ==
            IF ~IsOk(rest) THEN rest ELSE Ok(<<first.val>> \o rest.val)
        First(first) ==
            IF ~IsOk(first) THEN first
            ELSE Rest(first, CollectCommands(Tail(toks)))
    IN  IF toks = <<>> THEN Ok(<<>>) ELSE First(CommandFromStr(Head(toks)))

\* Combinations::decompose
Decompose(combination) == CollectCommands(SplitWhitespace(combination, <<>>))

\* Combinations::insert without the look-up of the key in the sequences.
CombinationsInsertNoSequencesCheck(combs, seqs, key, value) ==
    LET Found(commands, missing) ==
            IF missing # {}
            THEN [res |-> Err("SequenceNotExist",
                      GetName(commands[CHOOSE i \in missing :
                                          \A j \in missing : i <= j])),
                  combs |-> combs]
            ELSE [res |-> Ok(<<>>), combs |-> MapInsert(combs, key, value)]
        Decomposed(commands) ==
            IF ~IsOk(commands) THEN [res |-> commands, combs |-> combs]
            ELSE Found(commands.val,
                       {i \in 1..Len(commands.val) :
                           ~SequencesGet(seqs, GetName(commands.val[i]))})
        Checked(valid) ==
            IF ~IsOk(valid) THEN [res |-> valid, combs |-> combs]
            ELSE IF key \in DOMAIN combs
                THEN [res |-> Err("KeyIsInCombinations", key), combs |-> combs]
            ELSE Decomposed(Decompose(value))
    IN  Checked(ValidName(key))

\* Combinations::insert with the value checked before the key is looked up.
CombinationsInsertValueFirst(combs, seqs, key, value) ==
    LET Conflict ==
            IF SequencesGet(seqs, key)
                THEN [res |-> Err("KeyIsInSequences", key), combs |-> combs]
            ELSE IF key \in DOMAIN combs
                THEN [res |-> Err("KeyIsInCombinations", key), combs |-> combs]
            ELSE [res |-> Ok(<<>>), combs |-> MapInsert(combs, key, value)]
        Found(commands, missing) ==
            IF missing # {}
            THEN [res |-> Err("SequenceNotExist",
                      GetName(commands[CHOOSE i \in missing :
                                          \A j \in missing : i <= j])),
                  combs |-> combs]
            ELSE Conflict
        Decomposed(commands) ==
            IF ~IsOk(commands) THEN [res |-> commands, combs |-> combs]
            ELSE Found(commands.val,
                       {i \in 1..Len(commands.val) :
                           ~SequencesGet(seqs, GetName(commands.val[i]))})
        Checked(valid) ==
            IF ~IsOk(valid) THEN [res |-> valid, combs |-> combs]
            ELSE Decomposed(Decompose(value))
    IN  Checked(ValidName(key))

\* Combinations::insert reporting the last missing name, not the first.
CombinationsInsertLastMissing(combs, seqs, key, value) ==
    LET Found(commands, missing) ==
            IF missing # {}
            THEN [res |-> Err("SequenceNotExist",
                      GetName(commands[CHOOSE i \in missing :
                                          \A j \in missing : i >= j])),
                  combs |-> combs]
            ELSE [res |-> Ok(<<>>), combs |-> MapInsert(combs, key, value)]
        Decomposed(commands) ==
            IF ~IsOk(commands) THEN [res |-> commands, combs |-> combs]
            ELSE Found(commands.val,
                       {i \in 1..Len(commands.val) :
                           ~SequencesGet(seqs, GetName(commands.val[i]))})
        Checked(valid) ==
            IF ~IsOk(valid) THEN [res |-> valid, combs |-> combs]
            ELSE IF SequencesGet(seqs, key)
                THEN [res |-> Err("KeyIsInSequences", key), combs |-> combs]
            ELSE IF key \in DOMAIN combs
                THEN [res |-> Err("KeyIsInCombinations", key), combs |-> combs]
            ELSE Decomposed(Decompose(value))
    IN  Checked(ValidName(key))

\* Combinations::insert that stores the value before it looks its names up:
\* a dangling reference is reported with the entry already stored.
CombinationsInsertStoresFirst(combs, seqs, key, value) ==
    LET Found(commands, missing) ==
            IF missing # {}
            THEN [res |-> Err("SequenceNotExist",
                      GetName(commands[CHOOSE i \in missing :
                                          \A j \in missing : i <= j])),
                  combs |-> MapInsert(combs, key, value)]
            ELSE [res |-> Ok(<<>>), combs |-> MapInsert(combs, key, value)]
        Decomposed(commands) ==
            IF ~IsOk(commands) THEN [res |-> commands, combs |-> combs]
            ELSE Found(commands.val,
                       {i \in 1..Len(commands.val) :
                           ~SequencesGet(seqs, GetName(commands.val[i]))})
        Checked(valid) ==
            IF ~IsOk(valid) THEN [res |-> valid, combs |-> combs]
            ELSE IF SequencesGet(seqs, key)
                THEN [res |-> Err("KeyIsInSequences", key), combs |-> combs]
            ELSE IF key \in DOMAIN combs
                THEN [res |-> Err("KeyIsInCombinations", key), combs |-> combs]
            ELSE Decomposed(Decompose(value))
    IN  Checked(ValidName(key))

\* Combinations::insert: the result and the combination store after it.
CombinationsInsert(combs, seqs, key, value) ==
    LET \* commands.iter().find(|cmd| self.sequences.get(cmd.get_name()).is_none())
        Found(commands, missing) ==
            IF missing # {}
            THEN [res |-> Err("SequenceNotExist",
                      GetName(commands[CHOOSE i \in missing :
                                          \A j \in missing : i <= j])),
                  combs |-> combs]
            ELSE [res |-> Ok(<<>>), combs |-> MapInsert(combs, key, value)]
        Decomposed(commands) ==
            IF ~IsOk(commands) THEN [res |-> commands, combs |-> combs]
            ELSE Found(commands.val,
                       {i \in 1..Len(commands.val) :
                           ~SequencesGet(seqs, GetName(commands.val[i]))})
        Checked(valid) ==
            IF ~IsOk(valid) THEN [res |-> valid, combs |-> combs]
            ELSE IF SequencesGet(seqs, key)
                THEN [res |-> Err("KeyIsInSequences", key), combs |-> combs]
            ELSE IF key \in DOMAIN combs
                THEN [res |-> Err("KeyIsInCombinations", key), combs |-> combs]
            ELSE Decomposed(Decompose(value))
    IN  Checked(ValidName(key))

RECURSIVE CombinationsNewFrom(_, _, _)
\* The loop of Combinations::new: insert each pair, return the first error.
CombinationsNewFrom(combs, seqs, pairs) ==
    LET Inserted(r) ==
            IF ~IsOk(r.res) THEN r
            ELSE CombinationsNewFrom(r.combs, seqs, Tail(pairs))
    IN  IF pairs = <<>> THEN [res |-> Ok(<<>>), combs |-> combs]
        ELSE Inserted(CombinationsInsert(combs, seqs, Head(pairs)[1], Head(pairs)[2]))

\* Combinations::new
CombinationsNew(seqs, pairs) == CombinationsNewFrom(EmptyMap, seqs, pairs)

\* The results of two resolutions run one after the other and collected
\* into one ATResult<String>: the first failure, or the texts joined.
ThenOutcomes(S, T) ==
    {IF ~IsOk(x) THEN x ELSE IF ~IsOk(y) THEN y ELSE Ok(x.val \o y.val) :
        x \in S, y \in T}

RECURSIVE TimesOutcomes(_, _)
\* (0..n).map(|_| one expansion).collect(): n expansions, each resolved anew.
TimesOutcomes(S, n) ==
    IF n = 0 THEN {Ok(<<>>)} ELSE ThenOutcomes(S, TimesOutcomes(S, n - 1))

\* The call stack is exhausted: the recursion did not end.
StackOverflow == [tag |-> "StackOverflow"]

RECURSIVE GetSequenceCmd(_, _, _, _, _)
RECURSIVE ResolveAll(_, _, _, _, _)
\* Combinations::get_sequence_cmd with the repetition applied to each nested
\* command instead of to the whole expansion.
GetSequenceCmdInnerFirst(combs, seqs, cmd, as, depth) ==
    LET Expanded(commands, times) ==
            IF times = {} THEN {Panic}
            ELSE UNION {ResolveAll(combs, seqs,
                            [i \in 1..Len(commands) |->
                                Command(commands[i].name,
                                    TimesNumber(n * (CHOOSE k \in GetTimes(commands[i]) : TRUE)))],
                            as, depth - 1) : n \in times}
        Decomposed(commands) ==
            IF ~IsOk(commands) THEN {commands}
            ELSE Expanded(commands.val, GetTimes(cmd))
    IN  IF GetName(cmd) \in DOMAIN combs THEN
            IF depth = 0 THEN {StackOverflow}
            ELSE Decomposed(Decompose(combs[GetName(cmd)]))
        ELSE SequencesGetSequenceCmdArgs(seqs, cmd, as)

\* Combinations::get_sequence_cmd that resolves the nested commands with an
\* empty argument list instead of the caller's.
GetSequenceCmdDropsArgs(combs, seqs, cmd, as, depth) ==
    LET Expanded(once, times) ==
            IF times = {} THEN {Panic}
            ELSE UNION {TimesOutcomes(once, n) : n \in times}
        Decomposed(commands) ==
            IF ~IsOk(commands) THEN {commands}
            ELSE Expanded(ResolveAll(combs, seqs, commands.val, <<>>, depth - 1),
                          GetTimes(cmd))
    IN  IF GetName(cmd) \in DOMAIN combs THEN
            IF depth = 0 THEN {StackOverflow}
            ELSE Decomposed(Decompose(combs[GetName(cmd)]))
        ELSE SequencesGetSequenceCmdArgs(seqs, cmd, as)

\* Combinations::get_sequence_cmd: the set of results the call can return,
\* with depth calls left on the stack.
GetSequenceCmd(combs, seqs, cmd, as, depth) ==
    LET Expanded(once, times) ==
            IF times = {} THEN {Panic}
            ELSE UNION {TimesOutcomes(once, n) : n \in times}
        Decomposed(commands) ==
            IF ~IsOk(commands) THEN {commands}
            ELSE Expanded(ResolveAll(combs, seqs, commands.val, as, depth - 1),
                          GetTimes(cmd))
    IN  IF GetName(cmd) \in DOMAIN combs THEN
            IF depth = 0 THEN {StackOverflow}
            ELSE Decomposed(Decompose(combs[GetName(cmd)]))
        ELSE SequencesGetSequenceCmdArgs(seqs, cmd, as)

\* commands.iter().map(|cmd| self.get_sequence_cmd(cmd, args)).collect()
ResolveAll(combs, seqs, commands, as, depth) ==
    IF commands = <<>> THEN {Ok(<<>>)}
    ELSE ThenOutcomes(GetSequenceCmd(combs, seqs, Head(commands), as, depth),
                      ResolveAll(combs, seqs, Tail(commands), as, depth))


\* Combinations::get_sequence
GetSequence(combs, seqs, key, as) ==
    LET Decomposed(commands) ==
            IF ~IsOk(commands) THEN {commands}
            ELSE ResolveAll(combs, seqs, commands.val, as, StackDepth)
    IN  Decomposed(Decompose(key))

\* Err(Vec<ErrAutoType>) of an ATVecResult.  The errors are kept as a bag:
\* their order is the iteration order of the HashMap, which is unspecified.
ErrVec(errors) == [tag |-> "Err", errors |-> errors]

\* The errors of an ATVecResult as a bag, none for Ok(()).
ErrorsOf(r) == IF IsErr(r) THEN r.errors ELSE EmptyBag

RECURSIVE BagSum(_)
\* The bags f[x] of a function f, added up.
BagSum(f) ==
    IF DOMAIN f = {} THEN EmptyBag
    ELSE LET x == CHOOSE y \in DOMAIN f : TRUE
         IN  f[x] (+) BagSum([y \in DOMAIN f \ {x} |-> f[y]])

\* Command::are_valid_names
AreValidNames(keys) ==
    LET errors == {ValidName(k) : k \in {n \in keys : ~IsOk(ValidName(n))}}
    IN  IF errors = {} THEN Ok(<<>>) ELSE ErrVec(SetToBag(errors))

\* Sequences::get_errors
SequencesGetErrors(seqs) == AreValidNames(DOMAIN seqs)

\* Sequences::is_valid
SequencesIsValid(seqs) == ~(\E key \in DOMAIN seqs : IsErr(ValidName(key)))

\* The closure run on each command of a decomposed value in
\* Combinations::get_errors: the errors it pushes.
CommandErrors(seqs, cmd) ==
    LET Valid(valid) ==
            IF IsOk(valid) THEN
                IF SequencesGet(seqs, GetName(cmd)) THEN EmptyBag
                ELSE SetToBag({Err("UnknownSequence", GetName(cmd))})
            ELSE SetToBag({valid})
    IN  Valid(CommandValid(cmd))

\* The closure run on each value in Combinations::get_errors: the errors it
\* pushes, or a panic of decompose.
ValueErrors(seqs, combination) ==
    LET Decomposed(commands) ==
            IF IsPanic(commands) THEN Panic
            ELSE IF IsOk(commands) THEN
                Ok(BagSum([i \in 1..Len(commands.val) |->
                            CommandErrors(seqs, commands.val[i])]))
            ELSE Ok(SetToBag({commands}))
    IN  Decomposed(Decompose(combination))

\* Combinations::get_errors
CombinationsGetErrors(combs, seqs) ==
    LET Collected(errors) ==
            IF errors = EmptyBag THEN Ok(<<>>) ELSE ErrVec(errors)
        Values(keyErrors, seqErrors, perValue) ==
            IF \E k \in DOMAIN combs : IsPanic(perValue[k]) THEN Panic
            ELSE Collected(ErrorsOf(keyErrors) (+) ErrorsOf(seqErrors)
                           (+) BagSum([k \in DOMAIN combs |-> perValue[k].val]))
    IN  Values(AreValidNames(DOMAIN combs), SequencesGetErrors(seqs),
               [k \in DOMAIN combs |-> ValueErrors(seqs, combs[k])])

\* The closure of any() in Combinations::is_valid on one entry: TRUE when
\* the entry is invalid, or a panic of decompose.
EntryInvalid(seqs, key, value) ==
    LET Decomposed(commands) ==
            IF IsPanic(commands) THEN Panic
            ELSE IF IsOk(commands) THEN
                Ok(\E i \in 1..Len(commands.val) :
                        ~SequencesGet(seqs, GetName(commands.val[i])))
            ELSE Ok(TRUE)
    IN  IF IsErr(ValidName(key)) THEN Ok(TRUE)
        ELSE Decomposed(Decompose(value))

\* Combinations::is_valid: the set of results the call can return.  any()
\* stops at the first invalid entry, in the iteration order of the HashMap:
\* an entry whose value makes decompose panic aborts the call unless an
\* invalid entry comes before it.
CombinationsIsValid(combs, seqs) ==
    LET Results(perEntry) ==
            (IF \E k \in DOMAIN combs : IsPanic(perEntry[k])
                THEN {Panic} ELSE {})
            \cup (IF \E k \in DOMAIN combs : perEntry[k] = Ok(TRUE)
                    THEN {Ok(FALSE)} ELSE {})
            \cup (IF \A k \in DOMAIN combs : perEntry[k] = Ok(FALSE)
                    THEN {Ok(TRUE)} ELSE {})
    IN  Results([k \in DOMAIN combs |-> EntryInvalid(seqs, k, combs[k])])

-----------------------------------------------------------------------------
(* Inputs.                                                                 *)

None    == [tag |-> "None"]
Some(v) == [tag |-> "Some", val |-> v]

\* Keys and values given to Sequences::insert: A, B, the empty key, A1.
SeqKeys   == {<<"A">>, <<"B">>, <<>>, <<"A", "1">>}
\* A1, b, B1, <0>
SeqValues == {<<"A", "1">>, <<"b">>, <<"B", "1">>, <<"<", "0", ">">>}
\* Keys given to Sequences::get_sequence: A, A0, A3, A1..3, B2..2, Q, A~
SeqGetKeys ==
    {<<"A">>, <<"A", "0">>, <<"A", "3">>, <<"A", "1", ".", ".", "3">>,
     <<"B", "2", ".", ".", "2">>, <<"Q">>, <<"A", "~">>}

\* Keys given to Combinations::insert: X, Y, A, the empty key.
CombKeys == {<<"X">>, <<"Y">>, <<"A">>, <<>>}
\* Values given to Combinations::insert:
\*   "A2 B3", "A2 B3..5", "A D3", "D C", "", "A~ D", "B1..3 A", "X"
CombValues ==
    {<<"A", "2", " ", "B", "3">>,
     <<"A", "2", " ", "B", "3", ".", ".", "5">>,
     <<"A", " ", "D", "3">>,
     <<"D", " ", "C">>,
     <<>>,
     <<"A", "~", " ", "D">>,
     <<"B", "1", ".", ".", "3", " ", "A">>,
     <<"X">>}
\* Keys given to Combinations::get_sequence:
\*   X, X2, X1..3, X3..5, "A0 B", Y, Q, X~, A3..3
CombGetKeys ==
    {<<"X">>, <<"X", "2">>, <<"X", "1", ".", ".", "3">>,
     <<"X", "3", ".", ".", "5">>,
     <<"A", "0", " ", "B">>, <<"Y">>, <<"Q">>, <<"X", "~">>,
     <<"A", "3", ".", ".", "3">>}
\* Argument lists given to Combinations::get_sequence.
ArgLists == {<<>>, << <<"p">> >>}

\* The sequences and the combinations of a configuration file: any keys,
\* any values.  Keys A, X, A~; values b.
LoadSeqKeys   == {<<"A">>, <<"X">>, <<"A", "~">>}
LoadSeqValues == {<<"b">>}
\* Keys X, Y, A~; values "A", "X", "A~ D", "D C", "A B2".
LoadCombKeys   == {<<"X">>, <<"Y">>, <<"A", "~">>}
LoadCombValues ==
    {<<"A">>, <<"X">>, <<"A", "~", " ", "D">>, <<"D", " ", "C">>,
     <<"A", " ", "B", "2">>}
\* The maps with keys among keys and values among values.
Maps(keys, values) == UNION {[K -> values] : K \in SUBSET keys}

\* Lists of at most MaxPairs (key, value) pairs.
PairLists(keys, values) == UNION {[1..k -> keys \X values] : k \in 0..MaxPairs}

\* Characters of the tokens given to Command::from_str.
TokenChars  == {"A", "U+00E9", "~", " ", "1", "5", ".", "+"}
\* Characters of the texts given to Times::from_str.
SuffixChars == {"1", "5", ".", "+", "A"}
\* Characters of the names given to the Command constructors.
NameChars   == {"A", "U+00E9", "~", "1"}
\* Characters of the templates given to Content::from.
TemplateChars == {"A", "<", ">", "0", "1", "U+0663"}
\* Argument lists given to Content::generate_content.
TemplateArgs == {<<>>, << <<"p">> >>, << <<"p">>, <<"q">> >>}

-----------------------------------------------------------------------------
(* The dictionary: Sequences is built, then moved into Combinations.       *)

Call(op, key, value, as, result) ==
    [op |-> op, key |-> key, value |-> value, args |-> as, result |-> result,
     seqBefore |-> sequences, combBefore |-> combinations]

NoCall ==
    [op |-> "none", key |-> <<>>, value |-> <<>>, args |-> <<>>, result |-> None,
     seqBefore |-> EmptyMap, combBefore |-> EmptyMap]

DictInit ==
    /\ phase = "sequences"
    /\ sequences = EmptyMap
    /\ combinations = EmptyMap
    /\ call = NoCall

CmdIdle == token = None /\ parsed = None /\ command = None /\ text = None
            /\ reparsed = None
TplIdle == template = None /\ content = None /\ args = None /\ rendered = None

\* Sequences::new(pairs) in place of Sequences::default().
CallSequencesNew ==
    /\ phase = "sequences" /\ sequences = EmptyMap /\ call = NoCall
    /\ \E pairs \in PairLists(SeqKeys, SeqValues) :
        LET r == SequencesNew(pairs) IN
        /\ call' = Call("Sequences::new", <<>>, <<>>, <<>>, r.res)
        /\ sequences' = IF IsOk(r.res) THEN r.seqs ELSE EmptyMap
        /\ phase' = IF IsOk(r.res) THEN "sequences" ELSE "dropped"
    /\ UNCHANGED <<combinations, cmdVars, tplVars>>

CallSequencesInsert ==
    /\ phase = "sequences"
    /\ \E key \in SeqKeys, value \in SeqValues :
        LET r == SequencesInsert(sequences, key, value) IN
        /\ call' = Call("Sequences::insert", key, value, <<>>, r.res)
        /\ sequences' = r.seqs
    /\ UNCHANGED <<phase, combinations, cmdVars, tplVars>>

CallSequencesGetSequence ==
    /\ phase = "sequences"
    /\ \E key \in SeqGetKeys :
        \E r \in SequencesGetSequence(sequences, key) :
            call' = Call("Sequences::get_sequence", key, <<>>, <<>>, r)
    /\ UNCHANGED <<phase, sequences, combinations, cmdVars, tplVars>>

\* Combinations::new(sequences, pairs): the Sequences value is moved in.
CallCombinationsNew ==
    /\ phase = "sequences"
    /\ \E pairs \in PairLists(CombKeys, CombValues) :
        LET r == CombinationsNew(sequences, pairs) IN
        /\ call' = Call("Combinations::new", <<>>, <<>>, <<>>, r.res)
        /\ combinations' = IF IsOk(r.res) THEN r.combs ELSE EmptyMap
        /\ phase' = IF IsOk(r.res) THEN "combinations" ELSE "dropped"
    /\ UNCHANGED <<sequences, cmdVars, tplVars>>

CallCombinationsInsert ==
    /\ phase = "combinations"
    /\ \E key \in CombKeys, value \in CombValues :
        LET r == CombinationsInsert(combinations, sequences, key, value) IN
        /\ call' = Call("Combinations::insert", key, value, <<>>, r.res)
        /\ combinations' = r.combs
    /\ UNCHANGED <<phase, sequences, cmdVars, tplVars>>

CallGetSequence ==
    /\ phase = "combinations"
    /\ \E key \in CombGetKeys, as \in ArgLists :
        \E r \in GetSequence(combinations, sequences, key, as) :
            call' = Call("Combinations::get_sequence", key, <<>>, as, r)
    /\ UNCHANGED <<phase, sequences, combinations, cmdVars, tplVars>>

\* serde_json::from_reader(File::open(config)) in main.rs: the derived
\* Deserialize fills the two maps with what the file holds.
CallDeserialize ==
    /\ phase = "sequences" /\ sequences = EmptyMap /\ call = NoCall
    /\ \E seqs \in Maps(LoadSeqKeys, LoadSeqValues),
          combs \in Maps(LoadCombKeys, LoadCombValues) :
        /\ sequences' = seqs
        /\ combinations' = combs
        /\ call' = [Call("deserialize", <<>>, <<>>, <<>>, Ok(<<>>))
                        EXCEPT !.seqBefore = seqs, !.combBefore = combs]
    /\ phase' = "combinations"
    /\ UNCHANGED <<cmdVars, tplVars>>

CallGetErrors ==
    /\ phase = "combinations"
    /\ call' = Call("Combinations::get_errors", <<>>, <<>>, <<>>,
                    CombinationsGetErrors(combinations, sequences))
    /\ UNCHANGED <<phase, sequences, combinations, cmdVars, tplVars>>

CallIsValid ==
    /\ phase = "combinations"
    /\ \E r \in CombinationsIsValid(combinations, sequences) :
        call' = Call("Combinations::is_valid", <<>>, <<>>, <<>>, r)
    /\ UNCHANGED <<phase, sequences, combinations, cmdVars, tplVars>>

Init == DictInit /\ CmdIdle /\ TplIdle

Next ==
    \/ CallSequencesNew
    \/ CallSequencesInsert
    \/ CallSequencesGetSequence
    \/ CallCombinationsNew
    \/ CallCombinationsInsert
    \/ CallGetSequence

Spec == Init /\ [][Next]_vars

-----------------------------------------------------------------------------
(* A dictionary read from a configuration file.                            *)

NextLoad ==
    \/ CallDeserialize
    \/ CallGetErrors
    \/ CallIsValid
    \/ CallGetSequence

SpecLoad == Init /\ [][NextLoad]_vars

-----------------------------------------------------------------------------
(* The command parser on its own.                                          *)

CallCommandFromStr ==
    /\ token = None /\ command = None
    /\ \E t \in Strings(TokenChars, MaxTokenLen) :
        /\ token' = [tag |-> "Some", val |-> t, fn |-> "Command::from_str"]
        /\ parsed' = CommandFromStr(t)
        /\ command' = IF IsOk(parsed') THEN Some(parsed'.val) ELSE None
    /\ UNCHANGED <<text, reparsed, dictVars, tplVars>>

CallTimesFromStr ==
    /\ token = None /\ command = None
    /\ \E t \in Strings(SuffixChars, MaxSuffixLen) :
        /\ token' = [tag |-> "Some", val |-> t, fn |-> "Times::from_str"]
        /\ parsed' = TimesFromStr(t)
    /\ UNCHANGED <<command, text, reparsed, dictVars, tplVars>>

CallCommandNew ==
    /\ token = None /\ command = None
    /\ \E name \in Strings(NameChars, MaxNameLen) :
        command' = Some(CommandNew(name))
    /\ UNCHANGED <<token, parsed, text, reparsed, dictVars, tplVars>>

CallCommandNewNumber ==
    /\ token = None /\ command = None
    /\ \E name \in Strings(NameChars, MaxNameLen), num \in 0..UsizeMax :
        command' = Some(CommandNewNumber(name, num))
    /\ UNCHANGED <<token, parsed, text, reparsed, dictVars, tplVars>>

CallCommandNewRange ==
    /\ token = None /\ command = None
    /\ \E name \in Strings(NameChars, MaxNameLen),
          s \in 0..UsizeMax, e \in 0..UsizeMax :
        command' = Some(CommandNewRange(name, s, e))
    /\ UNCHANGED <<token, parsed, text, reparsed, dictVars, tplVars>>

\* command.to_string()
CallToString ==
    /\ command # None /\ text = None
    /\ text' = Some(CommandDisplay(command.val))
    /\ UNCHANGED <<token, parsed, command, reparsed, dictVars, tplVars>>

\* Command::from_str(&text)
CallReparse ==
    /\ text # None /\ reparsed = None
    /\ reparsed' = CommandFromStr(text.val)
    /\ UNCHANGED <<token, parsed, command, text, dictVars, tplVars>>

NextCommand ==
    \/ CallCommandFromStr
    \/ CallTimesFromStr
    \/ CallCommandNew
    \/ CallCommandNewNumber
    \/ CallCommandNewRange
    \/ CallToString
    \/ CallReparse

SpecCommand == Init /\ [][NextCommand]_vars

-----------------------------------------------------------------------------
(* The templater on its own.                                               *)

CallContentFrom ==
    /\ template = None
    /\ \E t \in Strings(TemplateChars, MaxTemplateLen) :
        /\ template' = Some(t)
        /\ content' = ContentFrom(t)
    /\ UNCHANGED <<args, rendered, dictVars, cmdVars>>

CallGenerateContent ==
    /\ template # None /\ IsOk(content) /\ rendered = None
    /\ \E as \in TemplateArgs :
        /\ args' = Some(as)
        /\ rendered' = Some(GenerateContent(content.val, as))
    /\ UNCHANGED <<template, content, dictVars, cmdVars>>

NextContent ==
    \/ CallContentFrom
    \/ CallGenerateContent

SpecContent == Init /\ [][NextContent]_vars

-----------------------------------------------------------------------------
(* Properties of the dictionary (Spec).                                    *)

AllAlphabetic(k) == k # <<>> /\ \A i \in 1..Len(k) : IsAlphabetic(k[i])

\* C1: after any sequence of Sequences::insert and Combinations::insert
\* calls, successful or failing, no name is a key of both the sequence store
\* and the combination store, and every key of either store is non-empty and
\* all alphabetic.
C1_JointNamespace ==
    /\ DOMAIN sequences \cap DOMAIN combinations = {}
    /\ \A k \in DOMAIN sequences \cup DOMAIN combinations : AllAlphabetic(k)

\* C1, witness: both stores hold keys and Combinations::insert has just
\* refused a key that is a sequence.
C1_Witness ==
    /\ call.op = "Combinations::insert"
    /\ call.key \in DOMAIN sequences
    /\ IsErr(call.result)
    /\ DOMAIN combinations # {}

\* C2: Combinations::insert with a valid key that is already present fails
\* with KeyIsInSequences(key) when the key is a sequence and with
\* KeyIsInCombinations(key) when it is a combination, whatever the value,
\* and leaves the combinations as they were.
C2_ConflictError ==
    (call.op = "Combinations::insert" /\ AllAlphabetic(call.key)) =>
        /\ call.key \in DOMAIN call.seqBefore =>
            /\ call.result = Err("KeyIsInSequences", call.key)
            /\ combinations = call.combBefore
        /\ call.key \in DOMAIN call.combBefore =>
            /\ call.result = Err("KeyIsInCombinations", call.key)
            /\ combinations = call.combBefore

\* C2, witness: a key that is a combination was inserted again with the
\* empty value and refused.
C2_Witness ==
    /\ call.op = "Combinations::insert"
    /\ call.key \in DOMAIN call.combBefore
    /\ call.value = <<>>
    /\ call.result = Err("KeyIsInCombinations", call.key)

\* The names of the tokens of a well-formed value, left to right.
C3_Names(value) ==
    [i \in 1..Len(Decompose(value).val) |-> Decompose(value).val[i].name]

C4_Once(value, as) ==
    LET toks == Decompose(value).val
        texts(i) == {r.val : r \in {x \in SequencesGetSequenceCmdArgs(sequences, toks[i], as) : IsOk(x)}}
    IN  {Concat(f) : f \in {g \in [1..Len(toks) -> UNION {texts(i) : i \in 1..Len(toks)}] :
                                \A i \in 1..Len(toks) : g[i] \in texts(i)}}

\* C4: resolving a command whose name is a combination yields times(command)
\* expansions of the combination joined together, each expansion the
\* resolutions of its tokens in left-to-right order; for the value "A2 B3"
\* and the count 2 the text is AABBBAABBB (A, B the rendered texts of the
\* two sequences).
C4_CombinationResolution ==
    (/\ call.op = "Combinations::get_sequence"
     /\ IsOk(call.result)
     /\ IsOk(CommandFromStr(call.key))
     /\ CommandFromStr(call.key).val.name \in DOMAIN combinations) =>
        LET cmd   == CommandFromStr(call.key).val
            value == combinations[cmd.name]
        IN  /\ \E n \in GetTimes(cmd) :
                    call.result.val \in {Concat(h) : h \in [1..n -> C4_Once(value, call.args)]}
            /\ (value = <<"A", "2", " ", "B", "3">> /\ cmd.times = TimesNumber(2)) =>
                    LET A == GenerateContent(ContentFrom(sequences[<<"A">>]).val, call.args)
                        B == GenerateContent(ContentFrom(sequences[<<"B">>]).val, call.args)
                    IN  call.result.val =
                            Repeat(A, 2) \o Repeat(B, 3) \o Repeat(A, 2) \o Repeat(B, 3)

\* C4, witness: X = "A2 B3" over two different texts was resolved as X2.
C4_Witness ==
    /\ call.op = "Combinations::get_sequence"
    /\ call.key = <<"X", "2">>
    /\ IsOk(call.result)
    /\ <<"X">> \in DOMAIN combinations
    /\ combinations[<<"X">>] = <<"A", "2", " ", "B", "3">>
    /\ sequences[<<"A">>] # sequences[<<"B">>]

\* C5: the repeat count is 1 without a repetition spec, exactly n for
\* Fixed(n), n = 0 included, and for Range(a, b) with a < b a value r with
\* a <= r < b; the text Sequences::get_sequence returns is that many copies
\* of the stored text.
C5_RepeatCount ==
    (/\ call.op = "Sequences::get_sequence"
     /\ IsOk(CommandFromStr(call.key))
     /\ CommandFromStr(call.key).val.name \in DOMAIN sequences) =>
        LET cmd    == CommandFromStr(call.key).val
            stored == sequences[cmd.name]
        IN  /\ cmd.times.kind = "None" => call.result = Ok(stored)
            /\ cmd.times.kind = "Number" =>
                    call.result = Ok(Repeat(stored, cmd.times.n))
            /\ (cmd.times.kind = "Range" /\ cmd.times.start < cmd.times.end) =>
                    /\ IsOk(call.result)
                    /\ \E r \in 0..UsizeMax :
                        /\ cmd.times.start <= r /\ r < cmd.times.end
                        /\ call.result.val = Repeat(stored, r)

\* C5, witness: A1..3 was resolved to two copies of the text of A.
C5_Witness ==
    /\ call.op = "Sequences::get_sequence"
    /\ call.key = <<"A", "1", ".", ".", "3">>
    /\ <<"A">> \in DOMAIN sequences
    /\ call.result = Ok(Repeat(sequences[<<"A">>], 2))

\* The text of the sequence name rendered against the arguments as.
C12_Rendered(name, as) ==
    GenerateContent(ContentFrom(sequences[name]).val, as)

\* The tokens of value all name sequences and carry no range.
C12_FixedTokens(value) ==
    /\ IsOk(Decompose(value))
    /\ \A i \in 1..Len(Decompose(value).val) :
        /\ Decompose(value).val[i].name \in DOMAIN sequences
        /\ Decompose(value).val[i].times.kind # "Range"

C13_Scenario ==
    /\ call.op = "Combinations::get_sequence"
    /\ call.key = <<"X", "3", ".", ".", "5">>
    /\ DOMAIN sequences = {<<"A">>, <<"B">>}
    /\ sequences[<<"A">>] = <<"A", "1">>
    /\ sequences[<<"B">>] = <<"B", "1">>
    /\ <<"X">> \in DOMAIN combinations
    /\ combinations[<<"X">>] = <<"A", "2", " ", "B", "3", ".", ".", "5">>

\* The texts of one expansion of X in the scenario: A1A1 and then B1 three
\* or four times.
C13_Once ==
    {Repeat(<<"A", "1">>, 2) \o Repeat(<<"B", "1">>, k) : k \in {3, 4}}

\* C13 as stated: the length of resolve("X3..5") is a multiple of the length
\* of a single expansion of X, and the number of multiples is in [3, 5].
C13_Original ==
    C13_Scenario =>
        /\ IsOk(call.result)
        /\ \E once \in C13_Once : \E m \in 3..5 :
                Len(call.result.val) = m * Len(once)

\* C13, amended: resolve("X3..5") is n expansions of X joined together,
\* n = 3 or 4, each expansion drawn anew (10 or 12 characters), so its length
\* is a sum of n single-expansion lengths, between 30 and 48.
C13_EndToEnd ==
    C13_Scenario =>
        /\ IsOk(call.result)
        /\ \E n \in {3, 4} : \E h \in [1..n -> C13_Once] :
                call.result.val = Concat(h)
        /\ Len(call.result.val) \in 30..48

\* C13, witness: X3..5 was resolved to three expansions of 10, 10 and 12
\* characters, 32 in all.
C13_Witness ==
    /\ C13_Scenario
    /\ IsOk(call.result)
    /\ Len(call.result.val) = 32

\* C15: resolving a command whose repetition is Range(n, n), which the
\* parser accepts, does not fail or abort: the name's text is repeated zero
\* times and the result is the empty text.
C15_EmptyRange ==
    (/\ call.op \in {"Combinations::get_sequence", "Sequences::get_sequence"}
     /\ IsOk(CommandFromStr(call.key))
     /\ CommandFromStr(call.key).val.times.kind = "Range"
     /\ CommandFromStr(call.key).val.times.start = CommandFromStr(call.key).val.times.end
     /\ CommandFromStr(call.key).val.name \in DOMAIN sequences \cup DOMAIN combinations) =>
        call.result = Ok(<<>>)

\* C16: Combinations::insert with a fresh valid key accepts a value whose
\* tokens name sequences or stored combinations, one combination at least:
\* the reference check does not concern other combinations.
C16_CombinationReference ==
    (/\ call.op = "Combinations::insert"
     /\ AllAlphabetic(call.key)
     /\ call.key \notin DOMAIN call.seqBefore \cup DOMAIN call.combBefore
     /\ IsOk(Decompose(call.value))
     /\ \A i \in 1..Len(Decompose(call.value).val) :
            Decompose(call.value).val[i].name
                \in DOMAIN call.seqBefore \cup DOMAIN call.combBefore
     /\ \E i \in 1..Len(Decompose(call.value).val) :
            Decompose(call.value).val[i].name \in DOMAIN call.combBefore) =>
        /\ call.result = Ok(<<>>)
        /\ call.key \in DOMAIN combinations

\* C17: Sequences::insert with a valid key fails when the key is already
\* in the sequence store (KeyIsInSequences) or in the combination store, and
\* leaves the store as it was; otherwise it stores the value as given under
\* the key.  (A Sequences value takes inserts only before it is moved into a
\* Combinations, so no combination exists at any call.)
C17_SequencesInsert ==
    (call.op = "Sequences::insert" /\ AllAlphabetic(call.key)) =>
        /\ call.key \in DOMAIN call.seqBefore =>
            /\ call.result = Err("KeyIsInSequences", call.key)
            /\ sequences = call.seqBefore
        /\ call.key \in DOMAIN call.combBefore =>
            /\ IsErr(call.result)
            /\ sequences = call.seqBefore
        /\ call.key \notin DOMAIN call.seqBefore \cup DOMAIN call.combBefore =>
            /\ call.result = Ok(<<>>)
            /\ sequences = MapInsert(call.seqBefore, call.key, call.value)
            /\ sequences[call.key] = call.value

\* C17, witness: a key that holds one text was inserted again with another
\* text and refused.
C17_Witness ==
    /\ call.op = "Sequences::insert"
    /\ call.key \in DOMAIN call.seqBefore
    /\ call.seqBefore[call.key] # call.value
    /\ call.result = Err("KeyIsInSequences", call.key)
    /\ sequences[call.key] = <<"<", "0", ">">>

\* C19: on a dictionary built through Sequences::new, Combinations::new and
\* the inserts, Combinations::get_sequence returns a text or an error for
\* every key: the call neither aborts nor recurses without end.
C19_Terminates ==
    call.op = "Combinations::get_sequence" =>
        IsOk(call.result) \/ IsErr(call.result)

\* On such a dictionary no token of a combination names a combination, so no
\* combination is entered while another is being expanded.
NoNestedCombination ==
    /\ call.op = "Combinations::get_sequence" => call.result # StackOverflow
    /\ \A k \in DOMAIN combinations :
        /\ IsOk(Decompose(combinations[k]))
        /\ \A i \in 1..Len(Decompose(combinations[k]).val) :
            Decompose(combinations[k]).val[i].name \notin DOMAIN combinations

\* C21: when Sequences::insert or Combinations::insert returns an error,
\* both stores hold the keys and values they held before the call; when it
\* succeeds, the store it belongs to gains the one new key with the value
\* given, no existing entry changes, and the other store is as before.
C21_InsertFrame ==
    /\ call.op = "Sequences::insert" =>
        /\ combinations = call.combBefore
        /\ IsErr(call.result) => sequences = call.seqBefore
        /\ IsOk(call.result) =>
            /\ call.key \notin DOMAIN call.seqBefore
            /\ DOMAIN sequences = DOMAIN call.seqBefore \cup {call.key}
            /\ sequences[call.key] = call.value
            /\ \A k \in DOMAIN call.seqBefore : sequences[k] = call.seqBefore[k]
    /\ call.op = "Combinations::insert" =>
        /\ sequences = call.seqBefore
        /\ IsErr(call.result) => combinations = call.combBefore
        /\ IsOk(call.result) =>
            /\ call.key \notin DOMAIN call.combBefore
            /\ DOMAIN combinations = DOMAIN call.combBefore \cup {call.key}
            /\ combinations[call.key] = call.value
            /\ \A k \in DOMAIN call.combBefore :
                    combinations[k] = call.combBefore[k]

\* C21, witness: with a combination stored, an insert of a fresh key was
\* refused for a dangling reference and the stores are as they were.
C21_Witness ==
    /\ call.op = "Combinations::insert"
    /\ call.result = Err("SequenceNotExist", <<"D">>)
    /\ call.key \notin DOMAIN call.combBefore
    /\ DOMAIN call.combBefore # {}
    /\ combinations = call.combBefore
    /\ sequences = call.seqBefore

-----------------------------------------------------------------------------
(* Properties of a dictionary read from a file (SpecLoad).                 *)

\* The tokens of a combination value, well-formed or not.
TokensOf(value) == SplitWhitespace(value, <<>>)

\* C14: Combinations::get_errors returns every violation: the error of
\* every invalid key of either store, the error of every malformed token
\* and UnknownSequence(name) for every well-formed token whose name is in
\* neither store, also when one value holds several of them.
C14_Complete ==
    (call.op = "Combinations::get_errors" /\ ~IsPanic(call.result)) =>
        LET errors == ErrorsOf(call.result) IN
        /\ \A k \in DOMAIN sequences \cup DOMAIN combinations :
            ~AllAlphabetic(k) => BagIn(ValidName(k), errors)
        /\ \A k \in DOMAIN combinations :
            \A i \in 1..Len(TokensOf(combinations[k])) :
                LET c == CommandFromStr(TokensOf(combinations[k])[i]) IN
                /\ IsErr(c) => BagIn(c, errors)
                /\ (/\ IsOk(c)
                    /\ c.val.name \notin DOMAIN sequences \cup DOMAIN combinations) =>
                        BagIn(Err("UnknownSequence", c.val.name), errors)

\* C18: a dictionary obtained by loading a configuration has only valid
\* keys, no name in both stores, and no combination token that fails to
\* parse or names an unknown sequence, as if it had been filled by insert.
C18_LoadedThroughInsert ==
    (call.op = "deserialize" /\ IsOk(call.result)) =>
        /\ \A k \in DOMAIN sequences \cup DOMAIN combinations : AllAlphabetic(k)
        /\ DOMAIN sequences \cap DOMAIN combinations = {}
        /\ \A k \in DOMAIN combinations :
            /\ IsOk(Decompose(combinations[k]))
            /\ \A i \in 1..Len(Decompose(combinations[k]).val) :
                Decompose(combinations[k]).val[i].name \in DOMAIN sequences

\* C20: in Combinations::get_errors a token that names a combination gives
\* no error; in a value of well-formed tokens, a token that names neither a
\* sequence nor a combination gives UnknownSequence(name); a value whose
\* first token has a malformed name gives InvalidKeyFormat.
C20_TokenCheck ==
    (call.op = "Combinations::get_errors" /\ ~IsPanic(call.result)) =>
        LET errors == ErrorsOf(call.result) IN
        \A k \in DOMAIN combinations :
            LET toks == TokensOf(combinations[k]) IN
            /\ IsOk(Decompose(combinations[k])) =>
                \A i \in 1..Len(toks) :
                    LET name == CommandFromStr(toks[i]).val.name IN
                    /\ (name \in DOMAIN combinations /\ name \notin DOMAIN sequences) =>
                            ~BagIn(Err("UnknownSequence", name), errors)
                    /\ name \notin DOMAIN sequences \cup DOMAIN combinations =>
                            BagIn(Err("UnknownSequence", name), errors)
            /\ (toks # <<>> /\ IsErr(CommandFromStr(toks[1]))) =>
                    /\ CommandFromStr(toks[1]).type \in {"InvalidKeyFormat", "KeyCannotBeEmpty", "WrongSequenceArg", "RangeMustNotBeEmpty"}
                    /\ BagIn(CommandFromStr(toks[1]), errors)
                    /\ ~BagIn(Err("UnknownSequence", toks[1]), errors)

\* C22: for every dictionary content, one obtained by deserialization
\* included, Combinations::is_valid returns true exactly when
\* Combinations::get_errors returns Ok(()).
C22_ValidityChecksAgree ==
    (call.op = "Combinations::is_valid" /\ IsOk(call.result)) =>
        LET errors == CombinationsGetErrors(combinations, sequences) IN
        ~IsPanic(errors) => (call.result.val <=> IsOk(errors))

-----------------------------------------------------------------------------
(* Properties of the command parser (SpecCommand).                         *)

\* char::is_ascii_punctuation, for the characters the tokens use.
IsPunctuation(c) == c \in {"~", ".", "+", "=", "/", "<", ">"}

\* A non-empty string of ASCII digits.
AllDigits(s) == s # <<>> /\ \A i \in 1..Len(s) : IsAsciiDigit(s[i])

\* C6: for every Command of the data model (a valid name, start <= end in a
\* range), built by parsing or by a constructor, parsing the text rendered
\* from it succeeds and yields an equal Command.
C6_RoundTrip ==
    (/\ reparsed # None
     /\ IsOk(ValidName(command.val.name))
     /\ command.val.times.kind = "Range" =>
            command.val.times.start <= command.val.times.end) =>
        reparsed = Ok(command.val)

\* C7 as claimed: a non-empty all-alphabetic token parses to its name with
\* no repetition spec; a token that contains a digit, a space or a
\* punctuation character fails with InvalidKeyFormat, or with
\* KeyCannotBeEmpty when the name is empty.
C7_Original ==
    (token # None /\ token.fn = "Command::from_str") =>
        LET t == token.val IN
        /\ AllAlphabetic(t) => parsed = Ok(Command(t, TimesNone))
        /\ (\E i \in 1..Len(t) :
                IsNumeric(t[i]) \/ IsWhitespace(t[i]) \/ IsPunctuation(t[i])) =>
            /\ IsErr(parsed)
            /\ parsed.type \in {"InvalidKeyFormat", "KeyCannotBeEmpty"}

\* C7 as amended: a non-empty all-alphabetic token parses to its name with
\* no repetition spec; a token without an ASCII digit that contains a space
\* or a punctuation character fails with InvalidKeyFormat; the empty token
\* and a token that starts with an ASCII digit fail with KeyCannotBeEmpty; a
\* digit after a name of ASCII letters starts the repetition suffix, so that
\* name followed by a count parses to the name with Fixed(count).
C7_NameParsing ==
    (token # None /\ token.fn = "Command::from_str") =>
        LET t == token.val IN
        /\ AllAlphabetic(t) => parsed = Ok(Command(t, TimesNone))
        /\ (/\ \A i \in 1..Len(t) : ~IsAsciiDigit(t[i])
            /\ \E i \in 1..Len(t) : IsWhitespace(t[i]) \/ IsPunctuation(t[i])) =>
                parsed = Err("InvalidKeyFormat", t)
        /\ (t = <<>> \/ IsAsciiDigit(t[1])) => parsed = Err("KeyCannotBeEmpty", <<>>)
        /\ \A k \in 1..(Len(t) - 1) :
            (/\ \A i \in 1..k : t[i] \in AsciiLetters
             /\ AllDigits(SubSeq(t, k + 1, Len(t)))
             /\ IsOk(ParseUsize(SubSeq(t, k + 1, Len(t))))) =>
                parsed = Ok(Command(SubSeq(t, 1, k),
                            TimesNumber(ParseUsize(SubSeq(t, k + 1, Len(t))).val)))

\* C7, witness: the token "A ~" was refused with InvalidKeyFormat.
C7_Witness ==
    /\ token # None /\ token.fn = "Command::from_str"
    /\ token.val = <<"A", " ", "~">>
    /\ parsed = Err("InvalidKeyFormat", token.val)

\* The ways to cut s into a, "..", b.
C8_Cuts(s) ==
    {i \in 1..(Len(s) - 1) : s[i] = "." /\ s[i + 1] = "."}

\* C8 as claimed: an all-digit suffix gives Fixed(n); a suffix "s..e" with
\* both halves all digits gives Range(s, e) when s <= e and fails with
\* RangeMustNotBeEmpty when s > e; every other suffix fails with
\* WrongSequenceArg.
C8_Original ==
    (token # None /\ token.fn = "Times::from_str") =>
        LET s == token.val
            digitCuts == {i \in C8_Cuts(s) : /\ AllDigits(SubSeq(s, 1, i - 1))
                                             /\ AllDigits(SubSeq(s, i + 2, Len(s)))}
        IN  IF AllDigits(s) THEN IsOk(parsed) /\ parsed.val.kind = "Number"
            ELSE IF digitCuts # {}
                THEN \/ IsOk(parsed) /\ parsed.val.kind = "Range"
                     \/ IsErr(parsed) /\ parsed.type = "RangeMustNotBeEmpty"
            ELSE parsed = Err("WrongSequenceArg", s)

\* C8 as amended: a suffix the unsigned-integer parser accepts (ASCII
\* digits, an optional leading '+', the value at most usize::MAX) gives
\* Fixed(n); otherwise a suffix "s..e" whose two halves the parser accepts
\* gives Range(s, e) when s <= e (s = e included) and fails with
\* RangeMustNotBeEmpty when s > e; every other suffix, an all-digit one past
\* usize::MAX included, fails with WrongSequenceArg.
C8_SuffixParsing ==
    (token # None /\ token.fn = "Times::from_str") =>
        LET s == token.val
            cuts == {i \in C8_Cuts(s) : /\ IsOk(ParseUsize(SubSeq(s, 1, i - 1)))
                                        /\ IsOk(ParseUsize(SubSeq(s, i + 2, Len(s))))}
        IN  IF IsOk(ParseUsize(s)) THEN parsed = Ok(TimesNumber(ParseUsize(s).val))
            ELSE IF cuts # {}
                THEN \A i \in cuts :
                        LET a == ParseUsize(SubSeq(s, 1, i - 1)).val
                            b == ParseUsize(SubSeq(s, i + 2, Len(s))).val
                        IN  /\ a <= b => parsed = Ok(TimesRange(a, b))
                            /\ a > b => parsed = ErrRange(a, b)
            ELSE parsed = Err("WrongSequenceArg", s)

\* C8, witness: "5..5", start equal to end, was parsed to Range(5, 5).
C8_Witness ==
    /\ token # None /\ token.fn = "Times::from_str"
    /\ token.val = <<"5", ".", ".", "5">>
    /\ parsed = Ok(TimesRange(5, 5))

-----------------------------------------------------------------------------
(* Properties of the templater (SpecContent).                              *)

\* s holds a well-formed placeholder: '<', one or more ASCII digits, '>'.
HasPlaceholder(s) ==
    \E i \in 1..Len(s), j \in 1..Len(s) :
        /\ i + 1 < j
        /\ s[i] = "<" /\ s[j] = ">"
        /\ \A k \in (i + 1)..(j - 1) : IsAsciiDigit(s[k])

\* C9: for every template without a well-formed placeholder, rendering the
\* parsed Content with no arguments reproduces the template.
C9_RoundTrip ==
    (rendered # None /\ args.val = <<>> /\ ~HasPlaceholder(template.val)) =>
        rendered.val = template.val

C11_ParsingTotal ==
    template # None => IsOk(content)

=============================================================================
